---- MODULE Spec2Model ----
(***************************************************************************)
(* mkchangelog: the commit message parser (parser.py), the version         *)
(* arithmetic (core.get_next_version) and the changelog generator          *)
(* (core.ChangelogGenerator).                                              *)
(*                                                                         *)
(* Text is modelled as sequences of tokens.  A token stands for a fixed    *)
(* run of characters ("feat", ":", " ", "Initial commit", ...); the token  *)
(* alphabet is chosen so that no configured type occurs inside or across   *)
(* other tokens, which makes matching a regular expression on the token    *)
(* sequence the same as matching it on the spelled-out string.  A message  *)
(* is a sequence of lines, a line is a sequence of tokens.                 *)
(***************************************************************************)
EXTENDS Integers, Sequences, FiniteSets, TLC

VARIABLES
    message,          \* parser: the raw commit message handed to parse
    parsed,           \* parser: outcome of GitMessageParser.parse(message)
    tag_prefix,       \* get_next_version: argument tag_prefix
    current_version,  \* get_next_version: argument current_version (a version name)
    commits,          \* get_next_version: argument commits (list of LogLine)
    next_version,     \* get_next_version: outcome
    repo,             \* the git history GitLogProvider and GitVersionsProvider read
    files,            \* .mkchangelog.d/versions/<dir>/: commits/*.txt, header and footer
    log_filters,      \* ChangelogGenerator.log_filters
    ignore_revs,      \* settings.ignore_revs (hashes GitLogProvider leaves out)
    commit_types,     \* settings.commit_types: type key -> display name
    call,             \* the generator operation in progress and its arguments
    pc,               \* position inside that operation
    versions,         \* get_changelog: local `versions`
    sections,         \* get_changelog: local `sections`
    queries,          \* LogProviderOptions received by the log providers, in call order
    result,           \* outcome of the generator operation
    args,             \* BumpCommand.execute: the command line arguments
    bump_pc,          \* BumpCommand.execute: position inside the run
    bump_next_version,\* BumpCommand.execute: local `next_version`
    effects           \* what the bump run asked the user and did to files and repository, in order

parserVars  == <<message, parsed>>
versionVars == <<tag_prefix, current_version, commits, next_version>>
worldVars   == <<repo, files, log_filters, ignore_revs, commit_types>>
genVars     == <<worldVars, call, pc, versions, sections, queries, result>>
bumpVars    == <<args, bump_pc, bump_next_version, effects>>
vars == <<parserVars, versionVars, genVars, bumpVars>>

(***************************************************************************)
(* Generic helpers                                                         *)
(***************************************************************************)
Range(s) == {s[i] : i \in 1..Len(s)}

\* Python's None for a str-typed field
None == "<None>"

(***************************************************************************)
(* Settings (config.py DEFAULT_SETTINGS)                                   *)
(***************************************************************************)
\* keys of DEFAULT_SETTINGS["commit_types"], in dict order
DefaultCommitTypeKeys ==
    <<"build", "chore", "ci", "dev", "docs", "feat", "fix", "perf",
      "refactor", "style", "test", "translations">>

\* the [commit_types] section as configured: the defaults, plus the "revert"
\* type that get_changelog_section separates out (an ini file may add keys)
commit_types_keys == DefaultCommitTypeKeys \o <<"revert">>

\* the literal the placeholder alternative of COMMIT_REGEXP accepts
Shrug == "<shrug>"

\* reference_aliases, in dict order
reference_aliases ==
    << [main |-> <<"Closes">>,   aliases |-> {<<"Close">>, <<"Closed">>}],
       [main |-> <<"Fixes">>,    aliases |-> {<<"Fix">>, <<"Fixed">>}],
       [main |-> <<"Resolves">>, aliases |-> {<<"Resolve">>, <<"Resolved">>}],
       [main |-> <<"Relates">>,  aliases |-> {<<"Relate">>, <<"Related">>}] >>

(***************************************************************************)
(* Character classes of the tokens                                         *)
(***************************************************************************)
\* every character of the token is in [\w\.-]
IsScopeTok(t) == t \notin {" ", "(", ")", "!", ":", ",", "/", "Initial commit", "BREAKING CHANGE", Shrug}

\* every character of the token is in [\w -]
IsActionTok(t) == t \notin {".", "(", ")", "!", ":", ",", "/", Shrug}

(***************************************************************************)
(* str.strip() and the first-line / body split of parse                    *)
(***************************************************************************)
IsBlank(line) == \A i \in 1..Len(line) : line[i] = " "

LStrip(line) ==
    LET k == CHOOSE i \in 1..Len(line)+1 :
                 /\ (i = Len(line)+1 \/ line[i] # " ")
                 /\ \A j \in 1..i-1 : line[j] = " "
    IN SubSeq(line, k, Len(line))

RStrip(line) ==
    LET k == CHOOSE i \in 0..Len(line) :
                 /\ (i = 0 \/ line[i] # " ")
                 /\ \A j \in i+1..Len(line) : line[j] = " "
    IN SubSeq(line, 1, k)

\* message.strip(): whitespace (blank lines included) removed at both ends
StripMessage(msg) ==
    IF \A i \in 1..Len(msg) : IsBlank(msg[i]) THEN <<>>
    ELSE LET a == CHOOSE i \in 1..Len(msg) :
                      ~IsBlank(msg[i]) /\ \A j \in 1..i-1 : IsBlank(msg[j])
             b == CHOOSE i \in 1..Len(msg) :
                      ~IsBlank(msg[i]) /\ \A j \in i+1..Len(msg) : IsBlank(msg[j])
             mid == SubSeq(msg, a, b)
         IN [i \in 1..Len(mid) |->
                LET l1 == IF i = 1 THEN LStrip(mid[i]) ELSE mid[i]
                IN IF i = Len(mid) THEN RStrip(l1) ELSE l1]

(***************************************************************************)
(* COMMIT_REGEXP.search(first_line)                                        *)
(***************************************************************************)
NoMatch == [matched |-> FALSE]

\* (?P<initial_commit>^Initial commit\.?)
InitialCommitAt(L, p) == p = 1 /\ Len(L) >= 1 /\ L[1] = "Initial commit"

\* (?P<merge>^Merge [^\r\n]+)
MergeAt(L, p) == p = 1 /\ Len(L) >= 3 /\ L[1] = "Merge" /\ L[2] = " "

\* (?P<type>^{types}|shrug) with types = "|".join(keys): the ^ binds to the
\* first alternative only
TypeAt(L, p) ==
    /\ p <= Len(L)
    /\ \/ p = 1 /\ L[p] = commit_types_keys[1]
       \/ \E i \in 2..Len(commit_types_keys) : L[p] = commit_types_keys[i]
       \/ L[p] = Shrug

\* (?:\((?P<scope>[\w\.-]+)\))? tried at position p: the position after the
\* closing parenthesis, or 0 when the group does not match there
ScopeEnd(L, p) ==
    IF p <= Len(L) /\ L[p] = "("
       /\ \E q \in p+2..Len(L) :
             L[q] = ")" /\ \A j \in p+1..q-1 : IsScopeTok(L[j])
    THEN 1 + CHOOSE q \in p+2..Len(L) :
                 L[q] = ")" /\ \A j \in p+1..q-1 : IsScopeTok(L[j])
    ELSE 0

\* the third alternative with the parentheses kept in the scope group
ConventionalAt_scopeWithParens(L, p) ==
    IF ~TypeAt(L, p) THEN NoMatch
    ELSE LET s  == ScopeEnd(L, p+1)
             r  == IF s # 0 THEN s ELSE p+1
             bang == r <= Len(L) /\ L[r] = "!"
             c  == IF bang THEN r+1 ELSE r
         IN IF c+2 <= Len(L) /\ L[c] = ":" /\ L[c+1] = " "
            THEN [matched |-> TRUE,
                  type    |-> L[p],
                  scope   |-> IF s # 0 THEN SubSeq(L, p+1, s-1) ELSE <<>>,
                  breaking |-> bang,
                  summary |-> SubSeq(L, c+2, Len(L))]
            ELSE NoMatch

\* the third alternative, tried at position p
ConventionalAt(L, p) ==
    IF ~TypeAt(L, p) THEN NoMatch
    ELSE LET s  == ScopeEnd(L, p+1)
             r  == IF s # 0 THEN s ELSE p+1
             bang == r <= Len(L) /\ L[r] = "!"
             c  == IF bang THEN r+1 ELSE r
         IN IF c+2 <= Len(L) /\ L[c] = ":" /\ L[c+1] = " "
            THEN [matched |-> TRUE,
                  type    |-> L[p],
                  scope   |-> IF s # 0 THEN SubSeq(L, p+2, s-2) ELSE <<>>,
                  breaking |-> bang,
                  summary |-> SubSeq(L, c+2, Len(L))]
            ELSE NoMatch

\* groupdict of the match at position p; an unmatched group is None (the
\* scope and summary, being token sequences, use <<>> for None: the regexp
\* never matches either as an empty string)
MatchAt(L, p) ==
    IF InitialCommitAt(L, p) \/ MergeAt(L, p)
    THEN [matched |-> TRUE, type |-> None, scope |-> <<>>,
          breaking |-> FALSE, summary |-> <<>>]
    ELSE ConventionalAt(L, p)

\* search scans the start positions left to right
Search(L) ==
    IF \E p \in 1..Len(L) : MatchAt(L, p).matched
    THEN MatchAt(L, CHOOSE p \in 1..Len(L) :
                       MatchAt(L, p).matched
                       /\ \A q \in 1..p-1 : ~MatchAt(L, q).matched)
    ELSE NoMatch

(***************************************************************************)
(* _get_references_from_msg                                                *)
(***************************************************************************)
\* REF_REGEXP on one line: ^\s*(?P<action>[\w -]+): (?P<refs>.*)$
RefRun(line) ==
    CHOOSE k \in 0..Len(line) :
        /\ \A j \in 1..k : IsActionTok(line[j])
        /\ (k = Len(line) \/ ~IsActionTok(line[k+1]))

RefMatches(line) ==
    LET k == RefRun(line)
    IN k >= 1 /\ k+2 <= Len(line) /\ line[k+1] = ":" /\ line[k+2] = " "

RefAction(line) ==
    LET k == RefRun(line)
        a == LStrip(SubSeq(line, 1, k))
    IN IF a = <<>> THEN <<" ">> ELSE a

RefValue(line) == SubSeq(line, RefRun(line)+3, Len(line))

\* for main, aliases in REF_ALIASES.items(): if action in aliases: action = main
\* the action kept as spelled
FoldAlias_asSpelled(action, i) == action

RECURSIVE FoldAlias(_, _)
FoldAlias(action, i) ==
    IF i > Len(reference_aliases) THEN action
    ELSE FoldAlias(IF action \in reference_aliases[i].aliases
                   THEN reference_aliases[i].main ELSE action, i+1)

\* value.split(",") followed by strip() of every piece
RECURSIVE SplitComma(_)
SplitComma(v) ==
    IF \E i \in 1..Len(v) : v[i] = ","
    THEN LET k == CHOOSE i \in 1..Len(v) :
                      v[i] = "," /\ \A j \in 1..i-1 : v[j] # ","
         IN {RStrip(LStrip(SubSeq(v, 1, k-1)))} \cup SplitComma(SubSeq(v, k+1, Len(v)))
    ELSE {RStrip(LStrip(v))}

\* the references dict: canonical action -> set of ids ({} when nothing matches)
get_references_from_msg(body) ==
    LET hits == {i \in 1..Len(body) : RefMatches(body[i])}
        acts == {FoldAlias(RefAction(body[i]), 1) : i \in hits}
    IN [a \in acts |->
          UNION {SplitComma(RefValue(body[i])) :
                    i \in {h \in hits : FoldAlias(RefAction(body[h]), 1) = a}}]

(***************************************************************************)
(* GitMessageParser.parse                                                  *)
(***************************************************************************)
Raised == [status |-> "raised"]

\* parse with the "!" of the first line ignored
parse_trailerOnly(msg) ==
    LET m          == StripMessage(msg)
        first_line == IF m = <<>> THEN <<>> ELSE m[1]
        body       == IF m = <<>> THEN <<>> ELSE Tail(m)
        match      == Search(first_line)
        references == get_references_from_msg(body)
        breaking_changes == IF <<"BREAKING CHANGE">> \in DOMAIN references
                            THEN references[<<"BREAKING CHANGE">>] ELSE {}
    IN IF ~match.matched THEN Raised
       ELSE [status |-> "ok",
             line |-> [message          |-> m,
                       commit_type      |-> match.type,
                       scope            |-> match.scope,
                       summary          |-> match.summary,
                       references       |-> references,
                       breaking_change  |-> (breaking_changes # {}),
                       breaking_changes |-> breaking_changes]]

parse(msg) ==
    LET m          == StripMessage(msg)
        first_line == IF m = <<>> THEN <<>> ELSE m[1]
        body       == IF m = <<>> THEN <<>> ELSE Tail(m)
        match      == Search(first_line)
        references == get_references_from_msg(body)
        breaking_changes == IF <<"BREAKING CHANGE">> \in DOMAIN references
                            THEN references[<<"BREAKING CHANGE">>] ELSE {}
    IN IF ~match.matched THEN Raised
       ELSE [status |-> "ok",
             line |-> [message          |-> m,
                       commit_type      |-> match.type,
                       scope            |-> match.scope,
                       summary          |-> match.summary,
                       references       |-> references,
                       breaking_change  |-> (breaking_changes # {} \/ match.breaking),
                       breaking_changes |-> breaking_changes]]

(***************************************************************************)
(* Parser inputs                                                           *)
(***************************************************************************)
\* filler word tokens allowed before the head of the first line
MaxLead == 1

RECURSIVE Fill(_)
Fill(n) == IF n = 0 THEN <<>> ELSE <<"z">> \o Fill(n-1)

Leads == {Fill(n) : n \in 0..MaxLead} \cup {<<" ">>, <<"z", " ">>}

Heads == {<<"build">>, <<"feat">>, <<"fix">>, <<"revert">>, <<Shrug>>, <<"z">>,
          <<"Initial commit">>, <<"Merge">>, <<"Merge", " ", "z">>, <<>>}

Scopes == {<<>>, <<"(", "z", ")">>, <<"(", "z", ".", "z", ")">>,
           <<"(", "z", " ", "z", ")">>, <<"(", ")">>}

Bangs == {<<>>, <<"!">>}

Seps == {<<":", " ">>, <<":">>, <<>>}

Summaries == {<<>>, <<"z">>, <<"z", ":", " ", "z">>, <<"fix", ":", " ", "z">>}

FirstLines ==
    {l \o h \o s \o b \o c \o t :
        l \in Leads, h \in Heads, s \in Scopes, b \in Bangs, c \in Seps, t \in Summaries}

Bodies ==
    { <<>>,
      << <<>>, <<"z">> >>,
      << <<>>, <<"BREAKING CHANGE", ":", " ", "z">> >>,
      << <<>>, <<"BREAKING CHANGE", ":", " ", "z", ",", " ", "z">> >>,
      << <<>>, <<"BREAKING CHANGE", ":">>, <<" ", "z">> >>,
      << <<>>, <<"Fix", ":", " ", "1">>, <<"Fixed", ":", " ", "2", ",", " ", "1">> >> }

Messages == {<<f>> \o b : f \in FirstLines, b \in Bodies}

(***************************************************************************)
(* utils.create_version and the semver operations used by get_next_version *)
(***************************************************************************)
\* largest number appearing in a part of an input version
MaxPart == 1

NumTok(n) == ToString(n)
IsNum(t)  == \E n \in 0..MaxPart : NumTok(n) = t
NumVal(t) == CHOOSE n \in 0..MaxPart : NumTok(n) = t

\* semver.Version.parse(s, optional_minor_and_patch=True) on the token string
\* s: major[.minor[.patch]], anything else is a ValueError
SemverParses(s) ==
    /\ Len(s) \in {1, 3, 5}
    /\ \A i \in 1..Len(s) : IF i % 2 = 1 THEN IsNum(s[i]) ELSE s[i] = "."

SemverParse(s) ==
    [major |-> NumVal(s[1]),
     minor |-> IF Len(s) >= 3 THEN NumVal(s[3]) ELSE 0,
     patch |-> IF Len(s) >= 5 THEN NumVal(s[5]) ELSE 0]

\* str(version)
SemverStr(v) == <<ToString(v.major), ".", ToString(v.minor), ".", ToString(v.patch)>>

bump_major(v) == [major |-> v.major + 1, minor |-> 0, patch |-> 0]
bump_minor(v) == [major |-> v.major, minor |-> v.minor + 1, patch |-> 0]
bump_patch(v) == [major |-> v.major, minor |-> v.minor, patch |-> v.patch + 1]

\* version[len(prefix):]
StripPrefix(prefix, version) == SubSeq(version, Len(prefix) + 1, Len(version))

create_version_ok(prefix, version) == SemverParses(StripPrefix(prefix, version))
create_version(prefix, version)    == SemverParse(StripPrefix(prefix, version))

(***************************************************************************)
(* core.get_next_version                                                   *)
(***************************************************************************)
\* the Counter `types`: commit types and the extra key "breaking_changes"
TypesCounter(cs) ==
    LET keys == {cs[i].commit_type : i \in 1..Len(cs)}
                \cup (IF \E i \in 1..Len(cs) : cs[i].breaking_change
                      THEN {"breaking_changes"} ELSE {})
    IN [k \in keys |->
          Cardinality({i \in 1..Len(cs) : cs[i].commit_type = k})
          + (IF k = "breaking_changes"
             THEN Cardinality({i \in 1..Len(cs) : cs[i].breaking_change})
             ELSE 0)]

NoVersion == [status |-> "none"]

\* get_next_version with the feat test ahead of the breaking-change test
get_next_version_featFirst(prefix, version, cs) ==
    IF ~create_version_ok(prefix, version) THEN Raised
    ELSE LET cur   == create_version(prefix, version)
             types == TypesCounter(cs)
             breaking_changes == IF "breaking_changes" \in DOMAIN types
                                 THEN types["breaking_changes"] ELSE 0
             nxt   == IF "feat" \in DOMAIN types THEN bump_minor(cur)
                      ELSE IF breaking_changes > 0 THEN bump_major(cur)
                      ELSE IF "fix" \in DOMAIN types THEN bump_patch(cur)
                      ELSE cur
         IN IF nxt = cur THEN NoVersion
            ELSE [status |-> "version",
                  name   |-> prefix \o SemverStr(nxt),
                  semver |-> nxt]

\* get_next_version whose last branch bumps the patch for any commit at all
get_next_version_anyPatch(prefix, version, cs) ==
    IF ~create_version_ok(prefix, version) THEN Raised
    ELSE LET cur   == create_version(prefix, version)
             types == TypesCounter(cs)
             breaking_changes == IF "breaking_changes" \in DOMAIN types
                                 THEN types["breaking_changes"] ELSE 0
             nxt   == IF breaking_changes > 0 THEN bump_major(cur)
                      ELSE IF "feat" \in DOMAIN types THEN bump_minor(cur)
                      ELSE IF DOMAIN types # {} THEN bump_patch(cur)
                      ELSE cur
         IN IF nxt = cur THEN NoVersion
            ELSE [status |-> "version",
                  name   |-> prefix \o SemverStr(nxt),
                  semver |-> nxt]

\* get_next_version without the comparison with the current version
get_next_version_noCompare(prefix, version, cs) ==
    IF ~create_version_ok(prefix, version) THEN Raised
    ELSE LET cur   == create_version(prefix, version)
             types == TypesCounter(cs)
             breaking_changes == IF "breaking_changes" \in DOMAIN types
                                 THEN types["breaking_changes"] ELSE 0
             nxt   == IF breaking_changes > 0 THEN bump_major(cur)
                      ELSE IF "feat" \in DOMAIN types THEN bump_minor(cur)
                      ELSE IF "fix" \in DOMAIN types THEN bump_patch(cur)
                      ELSE cur
         IN [status |-> "version",
             name   |-> prefix \o SemverStr(nxt),
             semver |-> nxt]

get_next_version(prefix, version, cs) ==
    IF ~create_version_ok(prefix, version) THEN Raised
    ELSE LET cur   == create_version(prefix, version)
             types == TypesCounter(cs)
             breaking_changes == IF "breaking_changes" \in DOMAIN types
                                 THEN types["breaking_changes"] ELSE 0
             nxt   == IF breaking_changes > 0 THEN bump_major(cur)
                      ELSE IF "feat" \in DOMAIN types THEN bump_minor(cur)
                      ELSE IF "fix" \in DOMAIN types THEN bump_patch(cur)
                      ELSE cur
         IN IF nxt = cur THEN NoVersion
            ELSE [status |-> "version",
                  name   |-> prefix \o SemverStr(nxt),
                  semver |-> nxt]

(***************************************************************************)
(* Inputs of get_next_version                                              *)
(***************************************************************************)
\* longest commit list handed to get_next_version
MaxCommits == 3

\* raw messages the commit lists are parsed from
VersionMessages ==
    { << <<"feat", "(", "z", ")", ":", " ", "z">> >>,
      << <<"fix", ":", " ", "z">> >>,
      << <<"build", ":", " ", "z">> >>,
      << <<"build", "!", ":", " ", "z">> >>,
      << <<"docs", ":", " ", "z">>, <<>>, <<"BREAKING CHANGE", ":", " ", "z">> >>,
      << <<"Initial commit">> >> }

LogLinesOf(msgs) == {parse(m).line : m \in {x \in msgs : parse(x).status = "ok"}}

RECURSIVE SeqsUpTo(_, _)
SeqsUpTo(S, n) ==
    IF n = 0 THEN {<<>>}
    ELSE LET shorter == SeqsUpTo(S, n-1)
         IN shorter \cup {Append(s, x) : s \in {t \in shorter : Len(t) = n-1}, x \in S}

Prefixes == {<<"v">>, <<>>}

VersionStrings ==
    {<<NumTok(a)>> : a \in 0..MaxPart}
    \cup {<<NumTok(a), ".", NumTok(b)>> : a, b \in 0..MaxPart}
    \cup {<<NumTok(a), ".", NumTok(b), ".", NumTok(c)>> : a, b, c \in 0..MaxPart}

(***************************************************************************)
(* Settings consumed by the generator (config.py DEFAULT_SETTINGS)         *)
(***************************************************************************)
\* commit_types as configured: type key -> display name
ConfiguredCommitTypes ==
    [k \in Range(commit_types_keys) |->
        CASE k = "build" -> "Build"          [] k = "chore" -> "Chore"
          [] k = "ci" -> "CI"                [] k = "dev" -> "Dev"
          [] k = "docs" -> "Docs"            [] k = "feat" -> "Features"
          [] k = "fix" -> "Fixes"            [] k = "perf" -> "Performance"
          [] k = "refactor" -> "Refactors"   [] k = "style" -> "Style"
          [] k = "test" -> "Test"            [] k = "translations" -> "Translations"
          [] k = "revert" -> "Reverts"]

commit_types_priorities == [t \in {"feat", "fix", "refactor"} |->
                               CASE t = "feat" -> 40 [] t = "fix" -> 30 [] t = "refactor" -> 20]

commit_type_default_priority == 10

changelog_title == "Changelog"

\* DEFAULT_SETTINGS["GENERAL"]["ignore_revs"]
DefaultIgnoreRevs == {}

\* an absent int argument (commit_limit=None)
NoLimit == -1

(***************************************************************************)
(* String order of the tokens that occur as commit type or scope           *)
(***************************************************************************)
\* ascending in Python's str order; no token is a prefix of another, so the
\* order of token sequences is the lexicographic order over these ranks
StrOrder ==
    <<".", "build", "chore", "ci", "dev", "docs", "feat", "fix", "hidden_scope",
      "perf", "refactor", "revert", "style", "test", "translations", "z", Shrug>>

TokRank(t) == CHOOSE i \in 1..Len(StrOrder) : StrOrder[i] = t

RECURSIVE StrLess(_, _)
StrLess(a, b) ==
    IF b = <<>> THEN FALSE
    ELSE IF a = <<>> THEN TRUE
    ELSE IF Head(a) = Head(b) THEN StrLess(Tail(a), Tail(b))
    ELSE TokRank(Head(a)) < TokRank(Head(b))

\* sorted(): the stable sort of s under the strict order lt, given as a
\* function on pairs of indices
StableSort(s, lt) ==
    LET n == Len(s)
        before(i) == {j \in 1..n : lt[j, i] \/ (~lt[i, j] /\ j < i)}
    IN [k \in 1..n |-> s[CHOOSE i \in 1..n : Cardinality(before(i)) = k - 1]]

(***************************************************************************)
(* providers.py                                                            *)
(***************************************************************************)
HEAD == [name |-> <<"HEAD">>, semver |-> <<>>]

NoneVersion == [name |-> <<>>, semver |-> <<>>]

\* the tag on commit i of the history (newest first): the k-th release,
\* counted from the oldest, is tagged v<k>.0.0; <<>> for an untagged commit
TagOf(i) ==
    IF repo[i].tagged
    THEN <<"v", ToString(Cardinality({j \in i..Len(repo) : repo[j].tagged})), ".", "0", ".", "0">>
    ELSE <<>>

\* GitVersionsProvider.get_versions: the tags, newest first
get_versions ==
    LET idx == SelectSeq([i \in 1..Len(repo) |-> i], LAMBDA i : repo[i].tagged)
    IN [k \in 1..Len(idx) |->
           [name |-> TagOf(idx[k]), semver |-> <<[major |-> Len(idx) - k + 1, minor |-> 0, patch |-> 0]>>]]

\* position in the history a revision name resolves to
RevIndex(name) ==
    IF name = <<"HEAD">> THEN 1
    ELSE CHOOSE i \in 1..Len(repo) : TagOf(i) = name

\* rev.split("...")
HasDots(rev)   == \E i \in 1..Len(rev) : rev[i] = "..."
DotsAt(rev)    == CHOOSE i \in 1..Len(rev) : rev[i] = "..." /\ \A j \in 1..i-1 : rev[j] # "..."
BeforeDots(rev) == IF HasDots(rev) THEN SubSeq(rev, 1, DotsAt(rev) - 1) ELSE rev
AfterDots(rev)  == SubSeq(rev, DotsAt(rev) + 1, Len(rev))

\* repo.iter_commits(max_count, rev): the commits of the range, newest first:
\* those reachable from rev, or for "A...B" those reachable from exactly one
\* of A and B (an empty history yields no commit)
iter_commits(max_count, rev) ==
    LET a   == RevIndex(BeforeDots(rev))
        b   == RevIndex(AfterDots(rev))
        all == IF repo = <<>> THEN <<>>
               ELSE IF HasDots(rev)
                    THEN SubSeq(repo, IF a < b THEN a ELSE b, (IF a < b THEN b ELSE a) - 1)
                    ELSE SubSeq(repo, RevIndex(rev), Len(repo))
    IN IF max_count # NoLimit /\ Len(all) > max_count THEN SubSeq(all, 1, max_count) ELSE all

\* GitLogProvider.get_log leaving no commit out
GitLogProvider_get_log_keepAll(options) ==
    LET all_commits == iter_commits(options.commit_limit, options.rev)
    IN [i \in 1..Len(all_commits) |-> all_commits[i].message]

\* GitLogProvider.get_log
GitLogProvider_get_log(options) ==
    LET all_commits == iter_commits(options.commit_limit, options.rev)
        kept == IF options.ignore_revs # {}
                THEN SelectSeq(all_commits, LAMBDA c : c.hexsha \notin options.ignore_revs)
                ELSE all_commits
    IN [i \in 1..Len(kept) |-> kept[i].message]

\* fh.read().strip("\n")
StripNewlines(msg) ==
    IF \A i \in 1..Len(msg) : msg[i] = <<>> THEN <<>>
    ELSE LET a == CHOOSE i \in 1..Len(msg) : msg[i] # <<>> /\ \A j \in 1..i-1 : msg[j] = <<>>
             b == CHOOSE i \in 1..Len(msg) : msg[i] # <<>> /\ \A j \in i+1..Len(msg) : msg[j] = <<>>
         IN SubSeq(msg, a, b)

\* FilesLogProvider.get_log: the files of the directory named by the part of
\* rev before "...", HEAD reading "unreleased"; every directory without rev
FilesLogProvider_get_log(options) ==
    LET v       == BeforeDots(options.rev)
        version == IF v = <<"HEAD">> THEN <<"unreleased">> ELSE v
        found   == IF options.rev # <<>>
                   THEN SelectSeq(files, LAMBDA f : f.kind = "commits" /\ f.dir = version)
                   ELSE SelectSeq(files, LAMBDA f : f.kind = "commits")
    IN [i \in 1..Len(found) |-> StripNewlines(found[i].text)]

log_providers == <<"git", "files">>

Provider_get_log(p, options) ==
    IF p = "git" THEN GitLogProvider_get_log(options) ELSE FilesLogProvider_get_log(options)

(***************************************************************************)
(* core.ChangelogGenerator                                                 *)
(***************************************************************************)
LogProviderOptions(p, commit_limit, rev) ==
    [provider |-> p, commit_limit |-> commit_limit, rev |-> rev, ignore_revs |-> ignore_revs]

\* the options each provider of log_providers is called with, in call order
get_log_queries(commit_limit, rev) ==
    [i \in 1..Len(log_providers) |-> LogProviderOptions(log_providers[i], commit_limit, rev)]

RECURSIVE Concat(_)
Concat(ss) == IF ss = <<>> THEN <<>> ELSE Head(ss) \o Concat(Tail(ss))

\* get_log_messages putting the output of the last provider first
get_log_messages_lastFirst(commit_limit, rev) ==
    Concat([i \in 1..Len(log_providers) |->
               Provider_get_log(log_providers[Len(log_providers) + 1 - i],
                                LogProviderOptions(log_providers[Len(log_providers) + 1 - i],
                                                   commit_limit, rev))])

get_log_messages(commit_limit, rev) ==
    Concat([i \in 1..Len(log_providers) |->
               Provider_get_log(log_providers[i], LogProviderOptions(log_providers[i], commit_limit, rev))])

\* one post-parse filter: lib.provide_changelog_loglines_filter ("identity"),
\* the one of .mkchangelog.d/hooks.py ("hidden_scope"), or a filter of
\* another plugin that keeps the first record only ("newest_only": any
\* callable from a list of records to a list of records can be registered)
ApplyFilter(f, lines) ==
    CASE f = "hidden_scope" -> SelectSeq(lines, LAMBDA l : l.scope # <<"hidden_scope">>)
      [] f = "newest_only"  -> IF lines = <<>> THEN <<>> ELSE <<lines[1]>>
      [] OTHER              -> lines

\* the filters applied last to first
RECURSIVE ApplyFilters_lastFirst(_, _)
ApplyFilters_lastFirst(fs, lines) ==
    IF fs = <<>> THEN lines
    ELSE ApplyFilter(Head(fs), ApplyFilters_lastFirst(Tail(fs), lines))

\* get_loglines lines 86-88: each filter is given the list the filter before
\* it returned
RECURSIVE ApplyFilters(_, _)
ApplyFilters(fs, lines) ==
    IF fs = <<>> THEN lines ELSE ApplyFilters(Tail(fs), ApplyFilter(Head(fs), lines))

\* the records of the outcomes that are not failures, in order
ParsedLines(res) ==
    LET okIdx == SelectSeq([i \in 1..Len(res) |-> i], LAMBDA i : res[i].status = "ok")
    IN [k \in 1..Len(okIdx) |-> res[okIdx[k]].line]

\* get_loglines dropping the unparseable messages whatever strict says
get_loglines_neverRaise(msgs, strict) ==
    [status |-> "ok",
     lines |-> ApplyFilters(log_filters, ParsedLines([i \in 1..Len(msgs) |-> parse(msgs[i])]))]

get_loglines(msgs, strict) ==
    IF strict /\ \E i \in 1..Len(msgs) : parse(msgs[i]) = Raised
    THEN Raised
    ELSE [status |-> "ok",
          lines |-> ApplyFilters(log_filters, ParsedLines([i \in 1..Len(msgs) |-> parse(msgs[i])]))]

\* sorted() compares None with another key: TypeError
SortRaises(lines) == Len(lines) >= 2 /\ \E i \in 1..Len(lines) : lines[i].commit_type = None

\* every type at the default priority
Priority_flat(t) == commit_type_default_priority

Priority(t) == IF t \in DOMAIN commit_types_priorities
               THEN commit_types_priorities[t] ELSE commit_type_default_priority

\* the groups ordered by sorting ascending and reversing the result, which
\* turns round the groups of equal priority
group_commits_by_type_tiesReversed(lines) ==
    LET byType == StableSort(lines, [i, j \in 1..Len(lines) |->
                      lines[i].commit_type # lines[j].commit_type
                      /\ StrLess(<<lines[i].commit_type>>, <<lines[j].commit_type>>)])
        starts == SelectSeq([i \in 1..Len(byType) |-> i],
                      LAMBDA i : i = 1 \/ byType[i-1].commit_type # byType[i].commit_type)
        grouped == [g \in 1..Len(starts) |->
                      LET members == SelectSeq(byType,
                                       LAMBDA l : l.commit_type = byType[starts[g]].commit_type)
                      IN [type  |-> byType[starts[g]].commit_type,
                          lines |-> StableSort(members, [i, j \in 1..Len(members) |->
                                       StrLess(members[i].scope, members[j].scope)])]]
        ascending == StableSort(grouped, [i, j \in 1..Len(grouped) |->
                      Priority(grouped[i].type) < Priority(grouped[j].type)])
    IN [g \in 1..Len(ascending) |-> ascending[Len(ascending) + 1 - g]]

\* the groups with their records left in the order of the first sort
group_commits_by_type_scopesUnsorted(lines) ==
    LET byType == StableSort(lines, [i, j \in 1..Len(lines) |->
                      lines[i].commit_type # lines[j].commit_type
                      /\ StrLess(<<lines[i].commit_type>>, <<lines[j].commit_type>>)])
        starts == SelectSeq([i \in 1..Len(byType) |-> i],
                      LAMBDA i : i = 1 \/ byType[i-1].commit_type # byType[i].commit_type)
        grouped == [g \in 1..Len(starts) |->
                      LET members == SelectSeq(byType,
                                       LAMBDA l : l.commit_type = byType[starts[g]].commit_type)
                      IN [type  |-> byType[starts[g]].commit_type,
                          lines |-> members]]
    IN StableSort(grouped, [i, j \in 1..Len(grouped) |->
                      Priority(grouped[i].type) > Priority(grouped[j].type)])

\* group_commits_by_type for lines it can sort: the groups as a sequence of
\* [type, lines], in the insertion order of sorted_grouped
group_commits_by_type(lines) ==
    LET byType == StableSort(lines, [i, j \in 1..Len(lines) |->
                      lines[i].commit_type # lines[j].commit_type
                      /\ StrLess(<<lines[i].commit_type>>, <<lines[j].commit_type>>)])
        starts == SelectSeq([i \in 1..Len(byType) |-> i],
                      LAMBDA i : i = 1 \/ byType[i-1].commit_type # byType[i].commit_type)
        grouped == [g \in 1..Len(starts) |->
                      LET members == SelectSeq(byType,
                                       LAMBDA l : l.commit_type = byType[starts[g]].commit_type)
                      IN [type  |-> byType[starts[g]].commit_type,
                          lines |-> StableSort(members, [i, j \in 1..Len(members) |->
                                       StrLess(members[i].scope, members[j].scope)])]]
    IN StableSort(grouped, [i, j \in 1..Len(grouped) |->
                      Priority(grouped[i].type) > Priority(grouped[j].type)])

\* type_name: settings.commit_types.get(commit_type, commit_type.capitalize())
\* (the only parsable type outside the table is the placeholder, which
\* capitalize leaves unchanged)
type_name(t) == IF t \in DOMAIN commit_types THEN commit_types[t] ELSE t

\* None.capitalize(): AttributeError
TypeNameRaises(lines) == \E i \in 1..Len(lines) : lines[i].commit_type = None

\* the changes mapping: type_name(commit_type) -> lines, in the order of groups
Changes(groups) ==
    [g \in 1..Len(groups) |-> [name |-> type_name(groups[g].type), lines |-> groups[g].lines]]

\* a dict built from (key, value) pairs in order: a repeated key keeps its
\* first position and takes the last value
RECURSIVE DictOf(_)
DictOf(pairs) ==
    IF pairs = <<>> THEN <<>>
    ELSE LET init == DictOf(SubSeq(pairs, 1, Len(pairs) - 1))
             last == pairs[Len(pairs)]
         IN IF \E i \in 1..Len(init) : init[i].name = last.name
            THEN [i \in 1..Len(init) |-> IF init[i].name = last.name THEN last ELSE init[i]]
            ELSE Append(init, last)

\* header / footer lookup that finds no file
ReadVersionText_absent(name, kind) == <<>>

\* header / footer text of .mkchangelog.d/versions/<name>/: fh.read().strip()
\* when the file exists, "" otherwise (core.py:144-154)
ReadVersionText(name, kind) ==
    IF \E i \in 1..Len(files) : files[i].kind = kind /\ files[i].dir = name
    THEN StripMessage(files[CHOOSE i \in 1..Len(files) :
                               files[i].kind = kind /\ files[i].dir = name].text)
    ELSE <<>>

ChangelogSection(version, changes, reverts, breaking_changes) ==
    [version |-> version, changes |-> changes, reverts |-> reverts,
     breaking_changes |-> breaking_changes,
     header |-> ReadVersionText(version.name, "header"),
     footer |-> ReadVersionText(version.name, "footer")]

\* the range written the other way round, "{to}...{from}"
RevOf_reversed(from_version, to_version) ==
    LET from == IF from_version = NoneVersion THEN HEAD ELSE from_version
    IN IF to_version # NoneVersion
       THEN to_version.name \o <<"...">> \o from.name
       ELSE from.name

\* rev = f"{from_version.name}...{to_version.name}" or from_version.name
RevOf(from_version, to_version) ==
    LET from == IF from_version = NoneVersion THEN HEAD ELSE from_version
    IN IF to_version # NoneVersion
       THEN from.name \o <<"...">> \o to_version.name
       ELSE from.name

\* the filter by commit_types without the "all" token
FilterByTypes_noAll(lines, commit_types_arg) ==
    IF commit_types_arg # <<>>
    THEN SelectSeq(lines, LAMBDA l : l.commit_type \in Range(commit_types_arg))
    ELSE lines

\* the filter by commit_types (core.py:140-141); <<>> stands for None or []
FilterByTypes(lines, commit_types_arg) ==
    IF commit_types_arg # <<>>
    THEN SelectSeq(lines, LAMBDA l : l.commit_type \in Range(commit_types_arg)
                                     \/ "all" \in Range(commit_types_arg))
    ELSE lines

\* the section built with breaking_changes also when no line is left
BuildSection_keepsBreaking(from, breaking_changes, log_lines) ==
    IF log_lines = <<>>
    THEN [status |-> "ok", section |-> ChangelogSection(from, <<>>, <<>>, breaking_changes)]
    ELSE IF SortRaises(log_lines) \/ TypeNameRaises(log_lines)
    THEN Raised
    ELSE [status |-> "ok",
          section |-> ChangelogSection(from,
                         DictOf(Changes(group_commits_by_type(log_lines))),
                         SelectSeq(log_lines, LAMBDA l : l.commit_type = "revert"),
                         breaking_changes)]

\* the section built from the filtered lines (core.py:142-171)
BuildSection(from, breaking_changes, log_lines) ==
    IF log_lines = <<>>
    THEN [status |-> "ok", section |-> ChangelogSection(from, <<>>, <<>>, <<>>)]
    ELSE IF SortRaises(log_lines) \/ TypeNameRaises(log_lines)
    THEN Raised
    ELSE [status |-> "ok",
          section |-> ChangelogSection(from,
                         DictOf(Changes(group_commits_by_type(log_lines))),
                         SelectSeq(log_lines, LAMBDA l : l.commit_type = "revert"),
                         breaking_changes)]

\* core.py:139-141 on the list get_loglines returned
SectionOfLines(from, log_lines, commit_types_arg) ==
    BuildSection(from,
                 SelectSeq(log_lines, LAMBDA l : l.breaking_change),
                 FilterByTypes(log_lines, commit_types_arg))

get_changelog_section(from_version, to_version, commit_types_arg, commit_limit) ==
    SectionOfLines(IF from_version = NoneVersion THEN HEAD ELSE from_version,
                   get_loglines(get_log_messages(commit_limit, RevOf(from_version, to_version)),
                                FALSE).lines,
                   commit_types_arg)

(***************************************************************************)
(* The state machines                                                      *)
(***************************************************************************)
Idle == [status |-> "idle"]

ParserQuiet  == message = <<>> /\ parsed = Idle
VersionQuiet == /\ tag_prefix = <<>> /\ current_version = <<>>
                /\ commits = <<>> /\ next_version = Idle

\* no generator operation called yet
NoCall ==
    [op |-> "none", commit_types |-> <<>>, unreleased |-> FALSE,
     unreleased_version |-> <<"Unreleased">>, hide_empty_releases |-> FALSE,
     commit_limit |-> NoLimit, from_version |-> NoneVersion, to_version |-> NoneVersion,
     strict |-> FALSE, commits |-> <<>>, rev |-> <<>>]

GenQuiet == /\ repo = <<>> /\ files = <<>> /\ log_filters = <<>>
            /\ ignore_revs = DefaultIgnoreRevs
            /\ commit_types = ConfiguredCommitTypes
            /\ call = NoCall /\ pc = "idle" /\ versions = <<>>
            /\ sections = <<>> /\ queries = <<>> /\ result = Idle

\* no bump run
NoArgs == [dry_run |-> FALSE, show_next_version |-> FALSE, show_current_version |-> FALSE,
           latest_version |-> <<>>]

BumpQuiet == /\ args = NoArgs /\ bump_pc = "idle"
             /\ bump_next_version = Idle /\ effects = <<>>

(***************************************************************************)
(* Inputs of the generator                                                 *)
(***************************************************************************)
\* longest git history
MaxRepo == 2

\* raw commit messages the history is made of
GenMessages ==
    { << <<"feat", "(", "z", ")", ":", " ", "z">> >>,
      << <<"fix", "(", "hidden_scope", ")", ":", " ", "z">> >>,
      << <<"build", "!", ":", " ", "z">> >>,
      << <<"revert", ":", " ", "z">> >>,
      << <<"Initial commit">> >> }

Repos ==
    UNION {{[i \in 1..n |-> [message |-> ms[i], tagged |-> ts[i], hexsha |-> n - i + 1]] :
               ms \in [1..n -> GenMessages], ts \in [1..n -> BOOLEAN]} : n \in 0..MaxRepo}

\* the repositories of at most one commit, for the generators whose
\* filters do not commute or whose display names are not the configured ones
OrderedFilterRepos == {r \in Repos : Len(r) <= 1}

FileSets ==
    {<<>>,
     <<[dir |-> <<"unreleased">>, kind |-> "commits", text |-> << <<"fix", ":", " ", "z">>, <<>> >>],
       [dir |-> <<"unreleased">>, kind |-> "commits", text |-> << <<"fix", ":", " ", "y">> >>],
       [dir |-> <<"unreleased">>, kind |-> "commits", text |-> << <<"refactor", ":", " ", "z">> >>],
       [dir |-> <<"unreleased">>, kind |-> "commits", text |-> << <<"z", " ", "z">> >>],
       [dir |-> <<"HEAD">>, kind |-> "header", text |-> << <<" ", "z">>, <<>> >>],
       [dir |-> <<"v", "1", ".", "0", ".", "0">>, kind |-> "footer", text |-> << <<"z", " ", "z", " ">> >>]>>}

\* log_filters: none (the generator built without), or the filters the
\* plugin manager collects from lib.py and .mkchangelog.d/hooks.py
FilterLists == {<<>>, <<"identity", "hidden_scope">>}

\* log_filters of a generator given two filters that do not commute, in
\* either order
OrderedFilterLists == {<<"hidden_scope", "newest_only">>, <<"newest_only", "hidden_scope">>}

\* commit_types arguments: None, settings.commit_types_list, and "all"
TypeFilters == {<<>>, <<"fix", "feat">>, <<"all">>}

CommitLimits == {NoLimit, 1}

\* --- the parser alone ---------------------------------------------------
InitParse ==
    /\ message \in Messages
    /\ parsed = Idle
    /\ VersionQuiet
    /\ GenQuiet
    /\ BumpQuiet

Parse ==
    /\ parsed = Idle
    /\ parsed' = parse(message)
    /\ UNCHANGED <<message, versionVars, genVars, bumpVars>>

NextParse == Parse

SpecParse == InitParse /\ [][NextParse]_vars

\* --- get_next_version alone ---------------------------------------------
InitVersion ==
    /\ ParserQuiet
    /\ GenQuiet
    /\ BumpQuiet
    /\ tag_prefix \in Prefixes
    /\ current_version \in {tag_prefix \o v : v \in VersionStrings}
    /\ commits \in SeqsUpTo(LogLinesOf(VersionMessages), MaxCommits)
    /\ next_version = Idle

GetNextVersion ==
    /\ next_version = Idle
    /\ next_version' = get_next_version(tag_prefix, current_version, commits)
    /\ UNCHANGED <<parserVars, tag_prefix, current_version, commits, genVars, bumpVars>>

NextVersion == GetNextVersion

SpecVersion == InitVersion /\ [][NextVersion]_vars

\* --- the changelog generator --------------------------------------------
Init ==
    /\ ParserQuiet
    /\ VersionQuiet
    /\ BumpQuiet
    /\ files \in FileSets
    /\ \/ repo \in Repos /\ log_filters \in FilterLists
       \/ repo \in OrderedFilterRepos /\ log_filters \in OrderedFilterLists
    /\ ignore_revs = DefaultIgnoreRevs
    /\ commit_types = ConfiguredCommitTypes
    /\ call = NoCall
    /\ pc = "idle"
    /\ versions = <<>>
    /\ sections = <<>>
    /\ queries = <<>>
    /\ result = Idle

Changelog(secs) == [status |-> "ok", changelog |-> [title |-> changelog_title, sections |-> secs]]

\* get_changelog up to the test for an empty version list (core.py:183-191)
GetChangelogStart ==
    /\ pc = "idle"
    /\ \E ct \in TypeFilters, u \in BOOLEAN, h \in BOOLEAN, lim \in CommitLimits :
         LET vs == (IF u THEN <<HEAD>> ELSE <<>>) \o get_versions
         IN /\ call' = [NoCall EXCEPT !.op = "get_changelog", !.commit_types = ct,
                                      !.unreleased = u, !.hide_empty_releases = h,
                                      !.commit_limit = lim]
            /\ versions' = vs
            /\ IF vs = <<>>
               THEN pc' = "done" /\ result' = Changelog(<<>>)
               ELSE pc' = (IF Len(vs) = 1 THEN "single" ELSE "loop") /\ UNCHANGED result
    /\ UNCHANGED <<parserVars, versionVars, bumpVars, worldVars, sections, queries>>

\* Changelog(title, sections=[section]), or the exception of the section
SingleSection(r) == IF r.status = "ok" THEN Changelog(<<r.section>>) ELSE Raised

\* the early return for exactly one version (core.py:192-197)
GetChangelogSingle ==
    /\ pc = "single"
    /\ queries' = queries \o get_log_queries(NoLimit, RevOf(versions[1], NoneVersion))
    /\ result' = SingleSection(get_changelog_section(versions[1], NoneVersion,
                                                     call.commit_types, NoLimit))
    /\ pc' = "done"
    /\ UNCHANGED <<parserVars, versionVars, bumpVars, worldVars, call, versions, sections>>

\* the section is built and not kept
AppendSection_dropped(r, rest, nextPc) ==
    IF r.status = "ok"
    THEN /\ sections' = sections
         /\ versions' = rest
         /\ pc' = nextPc
         /\ UNCHANGED result
    ELSE /\ result' = Raised
         /\ pc' = "done"
         /\ UNCHANGED <<versions, sections>>

\* sections.append(section) and the step to the next version, or the
\* exception of the section leaving get_changelog
AppendSection(r, rest, nextPc) ==
    IF r.status = "ok"
    THEN /\ sections' = Append(sections, r.section)
         /\ versions' = rest
         /\ pc' = nextPc
         /\ UNCHANGED result
    ELSE /\ result' = Raised
         /\ pc' = "done"
         /\ UNCHANGED <<versions, sections>>

\* one turn of the while loop (core.py:200-209)
GetChangelogLoop ==
    /\ pc = "loop"
    /\ queries' = queries \o get_log_queries(call.commit_limit, RevOf(versions[1], versions[2]))
    /\ AppendSection(get_changelog_section(versions[1], versions[2],
                                           call.commit_types, call.commit_limit),
                     Tail(versions), IF Len(versions) > 2 THEN "loop" ELSE "last")
    /\ UNCHANGED <<parserVars, versionVars, bumpVars, worldVars, call>>

\* the section of the oldest version (core.py:210-212)
GetChangelogLast ==
    /\ pc = "last"
    /\ queries' = queries \o get_log_queries(call.commit_limit, RevOf(versions[1], NoneVersion))
    /\ AppendSection(get_changelog_section(versions[1], NoneVersion,
                                           call.commit_types, call.commit_limit),
                     versions, "post")
    /\ UNCHANGED <<parserVars, versionVars, bumpVars, worldVars, call>>

\* section.version.name = unreleased_version for the HEAD sections
RenameHead(secs, unreleased_version) ==
    [i \in 1..Len(secs) |->
        IF secs[i].version.name = <<"HEAD">>
        THEN [secs[i] EXCEPT !.version.name = unreleased_version]
        ELSE secs[i]]

\* [section for section in sections if section.changes]
HideEmpty(secs) == SelectSeq(secs, LAMBDA sec : sec.changes # <<>>)

\* the renaming, the hiding and the return (core.py:214-219)
GetChangelogFinish ==
    /\ pc = "post"
    /\ LET renamed == RenameHead(sections, call.unreleased_version)
           shown   == IF call.hide_empty_releases THEN HideEmpty(renamed) ELSE renamed
       IN /\ sections' = shown
          /\ result' = Changelog(shown)
    /\ pc' = "done"
    /\ UNCHANGED <<parserVars, versionVars, bumpVars, worldVars, call, versions, queries>>

\* a direct call of get_changelog_section (core.py:121-171)
GetChangelogSection ==
    /\ pc = "idle"
    /\ \E ct \in TypeFilters, lim \in CommitLimits,
          from \in {NoneVersion} \cup Range(get_versions),
          to \in {NoneVersion} \cup Range(get_versions) :
         /\ to # NoneVersion => to # from
         /\ call' = [NoCall EXCEPT !.op = "get_changelog_section", !.commit_types = ct,
                                   !.commit_limit = lim, !.from_version = from,
                                   !.to_version = to]
         /\ queries' = queries \o get_log_queries(lim, RevOf(from, to))
         /\ result' = get_changelog_section(from, to, ct, lim)
    /\ pc' = "done"
    /\ UNCHANGED <<parserVars, versionVars, bumpVars, worldVars, versions, sections>>

\* a direct call of get_loglines on the messages of the whole log (core.py:78-89)
GetLoglines ==
    /\ pc = "idle"
    /\ \E strict \in BOOLEAN :
         /\ call' = [NoCall EXCEPT !.op = "get_loglines", !.strict = strict,
                                   !.commits = get_log_messages(NoLimit, <<"HEAD">>)]
         /\ result' = get_loglines(get_log_messages(NoLimit, <<"HEAD">>), strict)
    /\ pc' = "done"
    /\ UNCHANGED <<parserVars, versionVars, bumpVars, worldVars, versions, sections, queries>>

Next ==
    \/ GetChangelogStart
    \/ GetChangelogSingle
    \/ GetChangelogLoop
    \/ GetChangelogLast
    \/ GetChangelogFinish
    \/ GetChangelogSection
    \/ GetLoglines

Spec == Init /\ [][Next]_vars

\* --- the changelog generator under other display names ------------------
\* settings.commit_types: as configured, or with one display name given to
\* two types
TypeNameMaps ==
    {ConfiguredCommitTypes,
     [ConfiguredCommitTypes EXCEPT !["feat"] = "Changes", !["fix"] = "Changes"]}

InitSettings ==
    /\ ParserQuiet
    /\ VersionQuiet
    /\ BumpQuiet
    /\ repo \in OrderedFilterRepos
    /\ files \in FileSets
    /\ log_filters = <<>>
    /\ ignore_revs = DefaultIgnoreRevs
    /\ commit_types \in TypeNameMaps
    /\ call = NoCall
    /\ pc = "idle"
    /\ versions = <<>>
    /\ sections = <<>>
    /\ queries = <<>>
    /\ result = Idle

SpecSettings == InitSettings /\ [][Next]_vars

\* --- the log providers and get_log_messages alone -----------------------
\* settings.ignore_revs: nothing, one hash of the history, or all of them
IgnoreSets == {{}} \cup {{h} : h \in 1..MaxRepo} \cup {1..MaxRepo}

InitLog ==
    /\ ParserQuiet
    /\ VersionQuiet
    /\ BumpQuiet
    /\ repo \in Repos
    /\ files \in FileSets
    /\ log_filters = <<>>
    /\ ignore_revs \in IgnoreSets
    /\ commit_types = ConfiguredCommitTypes
    /\ call = NoCall
    /\ pc = "idle"
    /\ versions = <<>>
    /\ sections = <<>>
    /\ queries = <<>>
    /\ result = Idle

\* the revision ranges get_changelog_section builds from two versions
LogRevs ==
    {RevOf(ft[1], ft[2]) :
        ft \in {p \in ({NoneVersion} \cup Range(get_versions)) \X ({NoneVersion} \cup Range(get_versions)) :
                   p[2] # NoneVersion => p[2] # p[1]}}

\* a call of GitLogProvider.get_log (providers.py:85-98)
GitGetLog ==
    /\ pc = "idle"
    /\ \E lim \in CommitLimits, rev \in LogRevs :
         /\ queries' = <<LogProviderOptions("git", lim, rev)>>
         /\ result' = [status |-> "ok",
                       messages |-> GitLogProvider_get_log(LogProviderOptions("git", lim, rev))]
         /\ call' = [NoCall EXCEPT !.op = "GitLogProvider.get_log",
                                   !.commit_limit = lim, !.rev = rev]
    /\ pc' = "done"
    /\ UNCHANGED <<parserVars, versionVars, bumpVars, worldVars, versions, sections>>

\* a call of get_log_messages (core.py:111-119)
GetLogMessages ==
    /\ pc = "idle"
    /\ \E lim \in CommitLimits, rev \in LogRevs :
         /\ queries' = get_log_queries(lim, rev)
         /\ result' = [status |-> "ok", messages |-> get_log_messages(lim, rev)]
         /\ call' = [NoCall EXCEPT !.op = "get_log_messages",
                                   !.commit_limit = lim, !.rev = rev]
    /\ pc' = "done"
    /\ UNCHANGED <<parserVars, versionVars, bumpVars, worldVars, versions, sections>>

NextLog ==
    \/ GitGetLog
    \/ GetLogMessages

SpecLog == InitLog /\ [][NextLog]_vars

\* --- commands/bump.py: BumpCommand.execute --------------------------------
\* options.tag_prefix, options.commit_limit and options.output (config.py
\* DEFAULT_SETTINGS["GENERAL"])
options_tag_prefix   == <<"v">>
options_commit_limit == 100
options_output       == "CHANGELOG.md"

\* the histories whose tags the bounded version parser reads
BumpRepos == {r \in Repos : Cardinality({i \in 1..Len(r) : r[i].tagged}) <= MaxPart}

\* --dry-run, --show-next-version, --show-current-version, --latest-version
BumpArgs ==
    [dry_run : BOOLEAN, show_next_version : BOOLEAN, show_current_version : BOOLEAN,
     latest_version : {<<>>, <<"1", ".", "0", ".", "0">>}]

InitBump ==
    /\ ParserQuiet
    /\ VersionQuiet
    /\ repo \in BumpRepos
    /\ files \in FileSets
    /\ log_filters \in FilterLists
    /\ ignore_revs = DefaultIgnoreRevs
    /\ commit_types = ConfiguredCommitTypes
    /\ call = NoCall /\ pc = "idle" /\ versions = <<>>
    /\ sections = <<>> /\ queries = <<>> /\ result = Idle
    /\ args \in BumpArgs
    /\ bump_pc = "start"
    /\ bump_next_version = Idle
    /\ effects = <<>>

\* GitVersionsProvider.get_last_version
get_last_version == IF get_versions = <<>> THEN NoneVersion ELSE get_versions[1]

\* version_name and rev (bump.py:76-83)
BumpVersionName(version) ==
    IF version # NoneVersion THEN version.name
    ELSE options_tag_prefix \o <<"0", ".", "0", ".", "0">>

BumpRev(version) ==
    IF version # NoneVersion THEN <<"HEAD", "...">> \o version.name ELSE <<"HEAD">>

\* Version.from_str(name, version)
Version_from_str(name, version) ==
    IF SemverParses(version)
    THEN [status |-> "version", name |-> name, semver |-> SemverParse(version)]
    ELSE Raised

\* next_version (bump.py:91-102)
BumpNextVersion(a, version) ==
    IF a.latest_version # <<>>
    THEN Version_from_str(options_tag_prefix \o a.latest_version, a.latest_version)
    ELSE get_next_version(options_tag_prefix, BumpVersionName(version),
                          get_loglines(get_log_messages(options_commit_limit, BumpRev(version)),
                                       FALSE).lines)

\* one thing the run asked or did
Effect(op, arg) == [op |-> op, arg |-> arg]

\* the run ends before rendering whatever --dry-run says
ReturnsEarly_ignoresDryRun(a, nv) ==
    \/ a.show_next_version
    \/ a.show_current_version
    \/ nv.status # "version"

\* the returns before the changelog is rendered (bump.py:104-121)
ReturnsEarly(a, nv) ==
    \/ a.show_next_version
    \/ a.show_current_version
    \/ nv.status # "version"
    \/ a.dry_run

\* bump.py:71-131: up to the first question
BumpExecute ==
    /\ bump_pc = "start"
    /\ bump_next_version' = BumpNextVersion(args, get_last_version)
    /\ effects' = IF bump_next_version'.status = "version"
                  THEN <<Effect("next_version", bump_next_version'.name)>>
                  ELSE <<>>
    /\ bump_pc' = IF bump_next_version' = Raised THEN "raised"
                  ELSE IF ReturnsEarly(args, bump_next_version') THEN "done"
                  ELSE "ask_show"
    /\ UNCHANGED <<parserVars, versionVars, genVars, args>>

\* bump.py:132-136: "Show next version changelog?"
BumpAskShow ==
    /\ bump_pc = "ask_show"
    /\ \E answer \in {"yes", "no"} :
         effects' = Append(effects, Effect("confirm_show", answer))
    /\ bump_pc' = "ask_generate"
    /\ UNCHANGED <<parserVars, versionVars, genVars, args, bump_next_version>>

\* bump.py:138-149: "Generate {output}?", then the file is written
BumpAskGenerate ==
    /\ bump_pc = "ask_generate"
    /\ \/ /\ effects' = Append(effects, Effect("confirm_generate", "no"))
          /\ bump_pc' = "done"
       \/ /\ effects' = effects \o <<Effect("confirm_generate", "yes"),
                                      Effect("write", options_output)>>
          /\ bump_pc' = "ask_commit"
    /\ UNCHANGED <<parserVars, versionVars, genVars, args, bump_next_version>>

\* bump.py:151-173: "Commit {output} and tag next version?", then the commit
\* and the tag (message.txt when declined)
BumpAskCommit ==
    /\ bump_pc = "ask_commit"
    /\ \/ effects' = effects \o <<Effect("confirm_commit", "no"),
                                   Effect("write", "message.txt")>>
       \/ effects' = effects \o <<Effect("confirm_commit", "yes"),
                                   Effect("commit", options_output),
                                   Effect("create_tag", bump_next_version.name)>>
    /\ bump_pc' = "done"
    /\ UNCHANGED <<parserVars, versionVars, genVars, args, bump_next_version>>

NextBump ==
    \/ BumpExecute
    \/ BumpAskShow
    \/ BumpAskGenerate
    \/ BumpAskCommit

SpecBump == InitBump /\ [][NextBump]_vars

(***************************************************************************)
(* Properties of get_next_version (checked under SpecVersion)              *)
(***************************************************************************)
AnyBreaking == \E i \in 1..Len(commits) : commits[i].breaking_change
AnyOfType(t) == \E i \in 1..Len(commits) : commits[i].commit_type = t

\* current_version spells major a, minor b, patch c behind the prefix,
\* a missing minor or patch reading as 0
Spells(a, b, c) ==
    \/ current_version = tag_prefix \o <<NumTok(a), ".", NumTok(b), ".", NumTok(c)>>
    \/ c = 0 /\ current_version = tag_prefix \o <<NumTok(a), ".", NumTok(b)>>
    \/ b = 0 /\ c = 0 /\ current_version = tag_prefix \o <<NumTok(a)>>

IsVersion(r, a, b, c) ==
    /\ r.status = "version"
    /\ r.semver = [major |-> a, minor |-> b, patch |-> c]
    /\ r.name = tag_prefix \o <<ToString(a), ".", ToString(b), ".", ToString(c)>>

\* C1: the bump follows a strict precedence: a breaking commit bumps the
\* major (minor and patch reset) even when feat and fix commits are present;
\* otherwise a feat commit bumps the minor (patch reset); otherwise a fix
\* commit bumps the patch.
C1_BumpPrecedence ==
    next_version # Idle =>
        \A a, b, c \in 0..MaxPart :
            Spells(a, b, c) =>
                /\ AnyBreaking => IsVersion(next_version, a + 1, 0, 0)
                /\ ~AnyBreaking /\ AnyOfType("feat") => IsVersion(next_version, a, b + 1, 0)
                /\ ~AnyBreaking /\ ~AnyOfType("feat") /\ AnyOfType("fix")
                       => IsVersion(next_version, a, b, c + 1)

\* a breaking commit together with feat and fix commits gave a major bump
C1_Witness ==
    /\ next_version.status = "version"
    /\ AnyBreaking /\ AnyOfType("feat") /\ AnyOfType("fix")
    /\ next_version.semver.minor = 0 /\ next_version.semver.patch = 0

\* C2: a commit list (the empty one included) with no breaking commit, no
\* feat and no fix commit yields None, and nothing is raised.
C2_NoBumpReturnsNone ==
    (next_version # Idle /\ ~AnyBreaking /\ ~AnyOfType("feat") /\ ~AnyOfType("fix"))
        => next_version = NoVersion

\* a non-empty list of other commit types gave None
C2_Witness ==
    /\ next_version = NoVersion
    /\ Len(commits) >= 2
    /\ AnyOfType("build") /\ AnyOfType(None)

(***************************************************************************)
(* Properties of parse (checked under SpecParse)                           *)
(***************************************************************************)
StrippedFirstLine ==
    LET m == StripMessage(message) IN IF m = <<>> THEN <<>> ELSE m[1]

RecognizedTypes == Range(commit_types_keys) \cup {Shrug}

\* C3: a message whose first line does not begin with a configured type
\* token (or the Initial-commit / Merge marker) is never parsed into a
\* record: parse raises.
C3_UnrecognizedLeadRaises ==
    (/\ parsed # Idle
     /\ \/ StrippedFirstLine = <<>>
        \/ StrippedFirstLine[1] \notin RecognizedTypes \cup {"Initial commit", "Merge"})
        => parsed = Raised

\* C4: every record returned by parse has a commit_type drawn from the
\* configured commit types (or the placeholder token), never an absent one.
C4_CommitTypePresent ==
    parsed.status = "ok" => parsed.line.commit_type \in RecognizedTypes

(***************************************************************************)
(* Properties of the changelog generator (checked under Spec)              *)
(***************************************************************************)
\* a finished call of op that returned
Returned(op) == call.op = op /\ pc = "done" /\ result.status = "ok"

\* the records get_changelog_section obtains from get_loglines for the call
SectionRecords ==
    get_loglines(get_log_messages(call.commit_limit,
                                  RevOf(call.from_version, call.to_version)), FALSE).lines

\* C5: for every type filter, every parsed record with breaking_change true
\* is in section.breaking_changes and every parsed record of type "revert"
\* is in section.reverts, also when its type is not in the filter.
C5_ListsBeforeTypeFilter ==
    Returned("get_changelog_section") =>
        \A i \in 1..Len(SectionRecords) :
            /\ SectionRecords[i].breaking_change
                   => SectionRecords[i] \in Range(result.section.breaking_changes)
            /\ SectionRecords[i].commit_type = "revert"
                   => SectionRecords[i] \in Range(result.section.reverts)

\* C6: with unreleased_version different from "HEAD", no section of a
\* returned Changelog is named "HEAD", whatever the number of versions.
C6_NoHeadSection ==
    (Returned("get_changelog") /\ call.unreleased_version # <<"HEAD">>) =>
        \A i \in 1..Len(result.changelog.sections) :
            result.changelog.sections[i].version.name # <<"HEAD">>

\* C7: with hide_empty_releases true, no section of a returned Changelog
\* has an empty changes mapping, whatever the number of versions.
C7_NoEmptySection ==
    (Returned("get_changelog") /\ call.hide_empty_releases) =>
        \A i \in 1..Len(result.changelog.sections) :
            result.changelog.sections[i].changes # <<>>

\* the version sequence of the call: the optional HEAD marker, then the
\* provider's versions
VersionSequence == (IF call.unreleased THEN <<HEAD>> ELSE <<>>) \o get_versions

\* C8: with hide_empty_releases false a returned Changelog has exactly one
\* section per element of the version sequence, in the same order: none for
\* the empty sequence, and the i-th section is that of the i-th version (the
\* HEAD marker possibly shown under unreleased_version).
C8_OneSectionPerVersion ==
    (Returned("get_changelog") /\ ~call.hide_empty_releases) =>
        LET S == result.changelog.sections
            V == VersionSequence
        IN /\ Len(S) = Len(V)
           /\ \A i \in 1..Len(V) :
                /\ S[i].version.semver = V[i].semver
                /\ \/ S[i].version.name = V[i].name
                   \/ V[i] = HEAD /\ S[i].version.name = call.unreleased_version

\* a changelog of the HEAD marker and two releases came back with three sections
C8_Witness ==
    /\ Returned("get_changelog") /\ ~call.hide_empty_releases
    /\ call.unreleased
    /\ Len(get_versions) = 2
    /\ Len(result.changelog.sections) = 3

\* the provider calls a whole get_changelog makes for the version sequence V:
\* per version, newest first, one call of each provider in log_providers order
ExpectedQueries(V) ==
    [k \in 1..(Len(V) * Len(log_providers)) |->
        LET i == ((k - 1) \div Len(log_providers)) + 1
            p == ((k - 1) % Len(log_providers)) + 1
        IN [provider |-> log_providers[p],
            rev |-> IF i < Len(V) THEN V[i].name \o <<"...">> \o V[i + 1].name
                    ELSE V[i].name]]

QueriesMade == [k \in 1..Len(queries) |-> [provider |-> queries[k].provider, rev |-> queries[k].rev]]

\* C9: get_changelog asks the log providers once per version, newest to
\* oldest, with rev "{v_i}...{v_(i+1)}" for every version but the oldest and
\* the bare name for the oldest (the calls made so far are always the first
\* ones of that list, and all of it once the changelog has returned);
\* get_changelog_section without from_version asks for "HEAD" (up to
\* to_version when one is given); every provider receives that very string.
C9_RevisionRanges ==
    /\ call.op = "get_changelog" =>
          /\ Len(queries) <= Len(ExpectedQueries(VersionSequence))
          /\ QueriesMade = SubSeq(ExpectedQueries(VersionSequence), 1, Len(queries))
          /\ Returned("get_changelog") => Len(queries) = Len(ExpectedQueries(VersionSequence))
    /\ (call.op = "get_changelog_section" /\ call.from_version = NoneVersion) =>
          QueriesMade = [p \in 1..Len(log_providers) |->
                            [provider |-> log_providers[p],
                             rev |-> IF call.to_version = NoneVersion THEN <<"HEAD">>
                                     ELSE <<"HEAD", "...">> \o call.to_version.name]]

\* a changelog of three versions returned after two bounded ranges and the
\* bare oldest name were asked of both providers
C9_Witness ==
    /\ Returned("get_changelog")
    /\ Len(VersionSequence) = 3
    /\ Len(queries) = 3 * Len(log_providers)
    /\ HasDots(queries[1].rev) /\ HasDots(queries[3].rev) /\ ~HasDots(queries[5].rev)

\* the records of the messages of the call that parse, in input order
ParsedRecords ==
    LET res   == [i \in 1..Len(call.commits) |-> parse(call.commits[i])]
        okIdx == SelectSeq([i \in 1..Len(call.commits) |-> i], LAMBDA i : res[i].status = "ok")
    IN [k \in 1..Len(okIdx) |-> res[okIdx[k]].line]

AnyUnparseable == \E i \in 1..Len(call.commits) : parse(call.commits[i]) = Raised

\* C10 as stated: non-strict get_loglines returns the parsed records of
\* exactly the messages that parse, in input order; strict get_loglines
\* raises on an unparseable message.
C10_ExactlyParsed ==
    (call.op = "get_loglines" /\ pc = "done") =>
        IF call.strict /\ AnyUnparseable
        THEN result = Raised
        ELSE result.status = "ok" /\ result.lines = ParsedRecords

\* the registered filters keep a record
KeptByFilters(l) == "hidden_scope" \in Range(log_filters) => l.scope # <<"hidden_scope">>

\* the list the first k registered filters leave of the records U, each
\* filter given what the one before it returned
RECURSIVE ChainAfter(_, _)
ChainAfter(k, U) ==
    IF k = 0 THEN U ELSE ApplyFilter(log_filters[k], ChainAfter(k - 1, U))

\* the list all the registered filters leave of the records U
ChainOutput(U) == ChainAfter(Len(log_filters), U)

\* C10 amended: non-strict get_loglines returns, in input order, the parsed
\* records of the messages that parse that the registered log filters keep
\* (all of them when no filter that removes records is registered),
\* silently dropping the messages that fail to parse; strict get_loglines
\* raises on an unparseable message and returns no list.
C10_ParsedThenFiltered ==
    (call.op = "get_loglines" /\ pc = "done") =>
        IF call.strict /\ AnyUnparseable
        THEN result = Raised
        ELSE /\ result.status = "ok"
             /\ result.lines = ChainOutput(ParsedRecords)
             /\ "newest_only" \notin Range(log_filters)
                    => result.lines = SelectSeq(ParsedRecords, KeptByFilters)
             /\ log_filters = <<>> => result.lines = ParsedRecords

\* a non-strict call dropped an unparseable message and returned the record
\* of another one
C10_Witness ==
    /\ call.op = "get_loglines" /\ pc = "done" /\ ~call.strict
    /\ AnyUnparseable
    /\ result.status = "ok" /\ Len(result.lines) >= 1
    /\ Len(result.lines) < Len(call.commits)

\* C11: get_changelog_section returns a ChangelogSection without raising for
\* every list of raw messages of the log sources (conventional commits mixed
\* with "Initial commit" lines and malformed lines) and every type filter.
C11_SectionNeverRaises ==
    (call.op = "get_changelog_section" /\ pc = "done") => result.status = "ok"

(***************************************************************************)
(* Further properties of parse (checked under SpecParse)                   *)
(***************************************************************************)
\* the prefix "<t>[(<scope>)][!]: " with the scope read from the n tokens of
\* L behind the opening parenthesis (no scope annotation when n = 0)
HeadPrefix(L, t, n, bang) ==
    <<t>> \o (IF n > 0 THEN <<"(">> \o SubSeq(L, 3, n + 2) \o <<")">> ELSE <<>>)
          \o (IF bang THEN <<"!">> ELSE <<>>) \o <<":", " ">>

\* L is "<t>[(<scope>)][!]: <rest>" with a scope of n tokens, each made of
\* word characters, dots and hyphens
HasForm(L, t, n, bang) ==
    /\ Len(L) >= Len(HeadPrefix(L, t, n, bang))
    /\ SubSeq(L, 1, Len(HeadPrefix(L, t, n, bang))) = HeadPrefix(L, t, n, bang)
    /\ \A i \in 3..(n + 2) : IsScopeTok(L[i])

\* parse returned type t, the scope of n tokens and the rest as summary
ParsedAs(L, t, n, bang) ==
    /\ parsed.status = "ok"
    /\ parsed.line.commit_type = t
    /\ parsed.line.scope = (IF n > 0 THEN SubSeq(L, 3, n + 2) ELSE <<>>)
    /\ parsed.line.summary = SubSeq(L, Len(HeadPrefix(L, t, n, bang)) + 1, Len(L))

\* C12 as stated: for a first line "<type>[(<scope>)][!]: <rest>" with a
\* configured type and a scope of word characters, dots and hyphens, parse
\* returns that type, the scope without parentheses (None when absent) and
\* as summary everything after the first ": " behind the prefix.
C12_TypeScopeSummary ==
    parsed # Idle =>
        \A t \in Range(commit_types_keys), n \in 0..(Len(StrippedFirstLine) - 2), bang \in BOOLEAN :
            HasForm(StrippedFirstLine, t, n, bang) => ParsedAs(StrippedFirstLine, t, n, bang)

\* C12 amended: the same for a first line (of the stripped message) whose
\* <rest> is not empty; with nothing behind the ": " parse raises.
C12_TypeScopeNonEmptySummary ==
    parsed # Idle =>
        \A t \in Range(commit_types_keys), n \in 0..(Len(StrippedFirstLine) - 2), bang \in BOOLEAN :
            HasForm(StrippedFirstLine, t, n, bang) =>
                IF Len(StrippedFirstLine) > Len(HeadPrefix(StrippedFirstLine, t, n, bang))
                THEN ParsedAs(StrippedFirstLine, t, n, bang)
                ELSE parsed = Raised

\* "fix(z.z)!: z: z" was parsed: dotted scope, colon kept in the summary
C12_Witness ==
    /\ StrippedFirstLine = <<"fix", "(", "z", ".", "z", ")", "!", ":", " ", "z", ":", " ", "z">>
    /\ parsed.status = "ok"
    /\ parsed.line.scope = <<"z", ".", "z">>
    /\ parsed.line.summary = <<"z", ":", " ", "z">>

\* the first line has "!" immediately before the colon that closes the
\* matched type/scope prefix, i.e. the colon of the ": " in front of the
\* record's summary
BangBeforeColon ==
    LET L == StrippedFirstLine
        k == Len(L) - Len(parsed.line.summary)
    IN /\ parsed.line.summary # <<>>
       /\ k >= 3
       /\ L[k] = " " /\ L[k - 1] = ":" /\ L[k - 2] = "!"

\* C13: for every message that parses, breaking_change is true exactly when
\* the first line carries "!" immediately before the colon or the record's
\* breaking_changes set is not empty; a message with no body and no "!" has
\* breaking_change false and empty references.
C13_BreakingFlag ==
    parsed.status = "ok" =>
        /\ parsed.line.breaking_change
               <=> (BangBeforeColon \/ parsed.line.breaking_changes # {})
        /\ (Len(StripMessage(message)) = 1 /\ "!" \notin Range(StrippedFirstLine))
               => (~parsed.line.breaking_change /\ DOMAIN parsed.line.references = {})

\* a message without body was flagged breaking by its "!" alone
C13_Witness ==
    /\ parsed.status = "ok"
    /\ Len(StripMessage(message)) = 1
    /\ BangBeforeColon
    /\ parsed.line.breaking_changes = {}
    /\ parsed.line.breaking_change

\* the body parse splits off the stripped message
MessageBody == IF StripMessage(message) = <<>> THEN <<>> ELSE Tail(StripMessage(message))

\* line i of the body opens a block with the marker "BREAKING CHANGE:"
IsMarkerLine(i) ==
    /\ Len(LStrip(MessageBody[i])) >= 2
    /\ LStrip(MessageBody[i])[1] = "BREAKING CHANGE"
    /\ LStrip(MessageBody[i])[2] = ":"

\* the last line of the block opened at line i: the one before the next
\* blank line
BlockEnd(i) ==
    CHOOSE j \in i..Len(MessageBody) :
        /\ \A k \in (i + 1)..j : ~IsBlank(MessageBody[k])
        /\ (j = Len(MessageBody) \/ IsBlank(MessageBody[j + 1]))

\* the dedented lines i..j joined by newlines
RECURSIVE JoinDedented(_, _)
JoinDedented(i, j) ==
    IF i > j THEN <<>>
    ELSE IF i = j THEN LStrip(MessageBody[i])
    ELSE LStrip(MessageBody[i]) \o <<"\n">> \o JoinDedented(i + 1, j)

\* the whole dedented content of the block opened at line i: what follows
\* the marker on its line when there is something, and the lines below it
BlockContent(i) ==
    LET first == LStrip(SubSeq(LStrip(MessageBody[i]), 3, Len(LStrip(MessageBody[i]))))
    IN IF first = <<>> THEN JoinDedented(i + 1, BlockEnd(i))
       ELSE IF BlockEnd(i) = i THEN first
       ELSE first \o <<"\n">> \o JoinDedented(i + 1, BlockEnd(i))

\* C14: for every message that parses and whose body has a block introduced
\* by "BREAKING CHANGE:" (the description on the marker's line, or below it)
\* breaking_change is true and breaking_changes contains, as one element, the
\* block's whole dedented content up to the next blank line.
C14_BreakingBlockWhole ==
    parsed.status = "ok" =>
        \A i \in 1..Len(MessageBody) :
            IsMarkerLine(i) =>
                /\ parsed.line.breaking_change
                /\ BlockContent(i) \in parsed.line.breaking_changes

\* the canonical action of a spelling: the key of the alias table entry
\* listing it, the spelling itself when no entry does
Canonical(action) ==
    IF \E e \in Range(reference_aliases) : action \in e.aliases
    THEN (CHOOSE e \in Range(reference_aliases) : action \in e.aliases).main
    ELSE action

\* the trailer lines "<Action>: id1, id2" of the body
TrailerLines == {i \in 1..Len(MessageBody) : RefMatches(MessageBody[i])}

\* C15: every trailer line adds its trimmed ids to the set stored under its
\* canonical action; the lines of one canonical action end in one set that
\* holds nothing else; no alias spelling is a key of references.
C15_ReferencesFolded ==
    parsed.status = "ok" =>
        LET refs == parsed.line.references
        IN /\ \A i \in TrailerLines :
                /\ Canonical(RefAction(MessageBody[i])) \in DOMAIN refs
                /\ SplitComma(RefValue(MessageBody[i]))
                       \subseteq refs[Canonical(RefAction(MessageBody[i]))]
           /\ \A a \in DOMAIN refs :
                /\ \A e \in Range(reference_aliases) : a \notin e.aliases
                /\ \A id \in refs[a] :
                       \E i \in TrailerLines :
                           /\ Canonical(RefAction(MessageBody[i])) = a
                           /\ id \in SplitComma(RefValue(MessageBody[i]))

\* "Fix: 1" and "Fixed: 2, 1" ended in the one set of "Fixes"
C15_Witness ==
    /\ parsed.status = "ok"
    /\ Cardinality(TrailerLines) = 2
    /\ DOMAIN parsed.line.references = {<<"Fixes">>}
    /\ parsed.line.references[<<"Fixes">>] = {<<"1">>, <<"2">>}

(***************************************************************************)
(* Further properties of get_changelog_section (checked under Spec)        *)
(***************************************************************************)
\* the records of all the groups of the returned section's changes
ChangesLines ==
    Concat([g \in 1..Len(result.section.changes) |-> result.section.changes[g].lines])

\* the type filter of the call lets a record through
PassesTypeFilter(l) ==
    \/ call.commit_types = <<>>
    \/ "all" \in Range(call.commit_types)
    \/ l.commit_type \in Range(call.commit_types)

\* the records ch are exactly those of recs that pass the type filter
ExactlyThePassing(ch, recs) ==
    /\ \A i \in 1..Len(ch) : PassesTypeFilter(ch[i]) /\ ch[i] \in Range(recs)
    /\ \A i \in 1..Len(recs) : PassesTypeFilter(recs[i]) => recs[i] \in Range(ch)
    /\ Len(ch) = Len(SelectSeq(recs, PassesTypeFilter))

\* C16: with a non-empty type filter section.changes holds only records whose
\* commit_type is in the filter, unless the filter contains "all", in which
\* case every parsed record is kept whatever its type; with no filter every
\* parsed record is kept. (Kept records are counted with their repetitions.)
C16_TypeFilter ==
    Returned("get_changelog_section") => ExactlyThePassing(ChangesLines, SectionRecords)

\* a section filtered by ["fix", "feat"] kept a record and left a build
\* record out
C16_Witness ==
    /\ Returned("get_changelog_section")
    /\ call.commit_types = <<"fix", "feat">>
    /\ Len(ChangesLines) >= 1
    /\ \E i \in 1..Len(SectionRecords) : SectionRecords[i].commit_type = "build"

\* the commit type of group g of the returned section's changes
GroupType(g) == result.section.changes[g].lines[1].commit_type

\* the configured priority of a type, the default one for an unlisted type
ConfiguredPriority(t) ==
    IF t \in DOMAIN commit_types_priorities
    THEN commit_types_priorities[t] ELSE commit_type_default_priority

\* position of the group named n in changes, 0 when there is none
GroupAt(n) ==
    IF \E g \in 1..Len(result.section.changes) : result.section.changes[g].name = n
    THEN CHOOSE g \in 1..Len(result.section.changes) : result.section.changes[g].name = n
    ELSE 0

ScopeBefore(a, b) == StrLess(a, b)

\* position in the list delivered to the section builder of the k-th record
\* equal to l (records that are equal cannot be told apart)
DeliveredAt(recs, l) == {i \in 1..Len(recs) : recs[i] = l}

\* the groups ch are in ascending scope order, records of equal scope in the
\* order of the delivered list recs
ScopeOrdered(ch, recs) ==
    \A g \in 1..Len(ch) :
        \A i, j \in 1..Len(ch[g].lines) :
            i < j =>
                /\ ~ScopeBefore(ch[g].lines[j].scope, ch[g].lines[i].scope)
                /\ (ch[g].lines[i].scope = ch[g].lines[j].scope /\ ch[g].lines[i] # ch[g].lines[j])
                      => \A a \in DeliveredAt(recs, ch[g].lines[i]),
                            b \in DeliveredAt(recs, ch[g].lines[j]) : a < b

\* C18: within each group of section.changes the records are in ascending
\* order of scope, an absent scope counting as the empty string and coming
\* first; records of one type with equal scope keep the relative order in
\* which the log sources delivered them.
C18_GroupsByScope ==
    Returned("get_changelog_section") => ScopeOrdered(result.section.changes, SectionRecords)

\* a group came back with the scopeless records of the files, in their
\* delivery order, in front of a scoped record that git delivered first
C18_Witness ==
    /\ Returned("get_changelog_section")
    /\ \E g \in 1..Len(result.section.changes) :
          LET ls == result.section.changes[g].lines
          IN /\ Len(ls) = 3
             /\ ls[1].scope = <<>> /\ ls[2].scope = <<>> /\ ls[1] # ls[2]
             /\ ls[3].scope = <<"hidden_scope">>
             /\ \E a \in DeliveredAt(SectionRecords, ls[3]) :
                    \A b \in DeliveredAt(SectionRecords, ls[1]) : a < b

\* C19: in every section returned by get_changelog_section a record of type
\* "revert" is in section.reverts and in no group of section.changes.
C19_RevertsSeparated ==
    Returned("get_changelog_section") =>
        \A i \in 1..Len(SectionRecords) :
            SectionRecords[i].commit_type = "revert" =>
                /\ SectionRecords[i] \in Range(result.section.reverts)
                /\ SectionRecords[i] \notin Range(ChangesLines)

\* the records parsed for the call of get_changelog_section, before any
\* filter sees them
SectionParsed ==
    LET msgs == get_log_messages(call.commit_limit, RevOf(call.from_version, call.to_version))
    IN ParsedLines([i \in 1..Len(msgs) |-> parse(msgs[i])])

\* the records the section delivers in breaking_changes and reverts
SeparatedLines == result.section.breaking_changes \o result.section.reverts

\* ch and sep hold records of the chain's output out only, ch as many as
\* pass the type filter, and no record of recs outside out is in ch or sep
ChainDelivers(ch, sep, recs, out) ==
    /\ \A i \in 1..Len(ch) : ch[i] \in Range(out)
    /\ \A i \in 1..Len(sep) : sep[i] \in Range(out)
    /\ Len(ch) = Len(SelectSeq(out, PassesTypeFilter))
    /\ \A i \in 1..Len(recs) :
          recs[i] \notin Range(out) => recs[i] \notin Range(ch) /\ recs[i] \notin Range(sep)

\* ch and sep are made from what the filter chain leaves of recs
FilteredFirst(ch, sep, recs) ==
    ChainDelivers(ch, sep, recs, ChainOutput(recs))

\* C20: the post-parse filters are applied one after another in the order of
\* log_filters, each given the list the one before it returned, to the parsed
\* records and before breaking_changes and reverts are separated and before
\* the type filter and the grouping: changes holds exactly the records of the
\* filter chain's output that pass the type filter, and a record the chain
\* removed is in none of changes, reverts and breaking_changes.
C20_FiltersInOrderBeforeGrouping ==
    Returned("get_changelog_section") =>
        FilteredFirst(ChangesLines, SeparatedLines, SectionParsed)

\* hidden_scope then newest_only are registered, the newest parsed record has
\* the hidden scope and the section delivers the one after it (the filters in
\* the other order would leave nothing)
C20_Witness ==
    /\ Returned("get_changelog_section")
    /\ log_filters = <<"hidden_scope", "newest_only">>
    /\ Len(SectionParsed) >= 2
    /\ SectionParsed[1].scope = <<"hidden_scope">>
    /\ SectionParsed[2].scope # <<"hidden_scope">>
    /\ ChangesLines = <<SectionParsed[2]>>

\* the version a call of get_changelog_section is about
RequestedVersion == IF call.from_version = NoneVersion THEN HEAD ELSE call.from_version

\* text is what the file of that kind of the version's directory holds
\* without the whitespace around it, and empty when there is no such file
IsTextOf(text, name, kind) ==
    /\ \A i \in 1..Len(files) :
          (files[i].kind = kind /\ files[i].dir = name) => text = StripMessage(files[i].text)
    /\ (\A i \in 1..Len(files) : ~(files[i].kind = kind /\ files[i].dir = name)) => text = <<>>

\* the section is empty and carries the version and the version's texts
EmptyWithVersion(res, v) ==
    /\ res.status = "ok"
    /\ res.section.changes = <<>>
    /\ res.section.version = v
    /\ IsTextOf(res.section.header, v.name, "header")
    /\ IsTextOf(res.section.footer, v.name, "footer")

\* C21: when no record survives parsing, the log filters and the type filter,
\* get_changelog_section returns a section with empty changes that carries
\* the requested version (the HEAD marker when from_version is absent) and
\* the header and footer text found for that version's name.
C21_EmptySectionKeepsVersion ==
    (call.op = "get_changelog_section" /\ pc = "done"
        /\ SelectSeq(SectionRecords, PassesTypeFilter) = <<>>)
    => EmptyWithVersion(result, RequestedVersion)

\* an empty section for HEAD came back with the header of HEAD's directory,
\* and an empty section for v1.0.0 can come back with that version's footer
C21_Witness ==
    /\ call.op = "get_changelog_section" /\ pc = "done"
    /\ SelectSeq(SectionRecords, PassesTypeFilter) = <<>>
    /\ SectionParsed # <<>>
    /\ \/ call.from_version = NoneVersion /\ result.section.header = <<<<"z">>>>
       \/ call.from_version # NoneVersion /\ result.section.footer = <<<<"z", " ", "z">>>>

(***************************************************************************)
(* Properties of the log providers and get_log_messages (checked under     *)
(* SpecLog)                                                                *)
(***************************************************************************)
\* what the provider of the k-th recorded call returned for the options it
\* received
OutputOf(k) == Provider_get_log(queries[k].provider, queries[k])

\* msgs is the outputs of the recorded calls one after another, each in its
\* own order
IsOutputsInTurn(msgs) ==
    /\ Len(msgs) = Len(Concat([k \in 1..Len(queries) |-> OutputOf(k)]))
    /\ \A k \in 1..Len(queries) : \A i \in 1..Len(OutputOf(k)) :
          msgs[Len(Concat([j \in 1..(k - 1) |-> OutputOf(j)])) + i] = OutputOf(k)[i]

\* C22: get_log_messages returns the outputs of all the configured log
\* providers one after another, in the order of log_providers and each in
\* the provider's own order; every provider is called exactly once, with the
\* commit_limit and the revision range of the call and settings.ignore_revs.
C22_ProvidersConcatenated ==
    (call.op = "get_log_messages" /\ pc = "done") =>
        /\ Len(queries) = Len(log_providers)
        /\ \A k \in 1..Len(queries) :
              /\ queries[k].provider = log_providers[k]
              /\ queries[k].commit_limit = call.commit_limit
              /\ queries[k].rev = call.rev
              /\ queries[k].ignore_revs = ignore_revs
        /\ result.status = "ok"
        /\ IsOutputsInTurn(result.messages)

\* with a limit of one and a hash ignored, git gave a message and the files
\* gave others, which came after git's
C22_Witness ==
    /\ call.op = "get_log_messages" /\ pc = "done"
    /\ call.commit_limit = 1 /\ ignore_revs # {}
    /\ Len(OutputOf(1)) = 1 /\ Len(OutputOf(2)) >= 2
    /\ OutputOf(1)[1] # OutputOf(2)[1]
    /\ result.messages[1] = OutputOf(1)[1]
    /\ result.messages[2] = OutputOf(2)[1]

\* the commits the repository yields for the recorded call of GitLogProvider
YieldedCommits == iter_commits(queries[1].commit_limit, queries[1].rev)

\* msgs holds, in the order of the yielded commits ys, the message of every
\* commit whose hash is not in ig, and nothing else
IsMessagesExcept(msgs, ys, ig) ==
    /\ Len(msgs) = Cardinality({i \in 1..Len(ys) : ys[i].hexsha \notin ig})
    /\ \A i \in 1..Len(ys) :
          ys[i].hexsha \notin ig
              => msgs[Cardinality({j \in 1..i : ys[j].hexsha \notin ig})] = ys[i].message

\* C23: GitLogProvider.get_log returns the messages of exactly the yielded
\* commits whose hash is not in ignore_revs, in the repository's order (no
\* position of the result belongs to an ignored commit); with ignore_revs
\* empty it returns the messages of all the yielded commits.
C23_IgnoredRevsLeftOut ==
    (call.op = "GitLogProvider.get_log" /\ pc = "done") =>
        /\ result.status = "ok"
        /\ IsMessagesExcept(result.messages, YieldedCommits, queries[1].ignore_revs)
        /\ queries[1].ignore_revs = {}
              => result.messages = [i \in 1..Len(YieldedCommits) |-> YieldedCommits[i].message]

\* of two yielded commits with different messages the newer one was ignored
\* and the message of the older one returned
C23_Witness ==
    /\ call.op = "GitLogProvider.get_log" /\ pc = "done"
    /\ Len(YieldedCommits) = 2
    /\ YieldedCommits[1].hexsha \in queries[1].ignore_revs
    /\ YieldedCommits[2].hexsha \notin queries[1].ignore_revs
    /\ YieldedCommits[1].message # YieldedCommits[2].message
    /\ result.messages = <<YieldedCommits[2].message>>

(***************************************************************************)
(* Further properties of the sections (checked under Spec)                 *)
(***************************************************************************)
\* a section without groups has neither reverts nor breaking changes
BareWhenEmpty(sec) ==
    sec.changes = <<>> => (sec.reverts = <<>> /\ sec.breaking_changes = <<>>)

\* C24: in every section get_changelog_section returns (to its caller or to
\* get_changelog), if changes is empty then reverts and breaking_changes are
\* empty too.
C24_NothingWithoutGroups ==
    /\ Returned("get_changelog_section") => BareWhenEmpty(result.section)
    /\ Returned("get_changelog") =>
          \A i \in 1..Len(result.changelog.sections) : BareWhenEmpty(result.changelog.sections[i])

\* a breaking record was parsed, the type filter left no record, and the
\* section came back without groups and without breaking changes
C24_Witness ==
    /\ Returned("get_changelog_section")
    /\ \E i \in 1..Len(SectionRecords) : SectionRecords[i].breaking_change
    /\ result.section.changes = <<>>
    /\ result.section.breaking_changes = <<>>

(***************************************************************************)
(* Properties of the grouping under any display names (checked under       *)
(* SpecSettings)                                                           *)
(***************************************************************************)
\* how often the record l stands in the list ls
TimesIn(l, ls) == Cardinality({i \in 1..Len(ls) : ls[i] = l})

\* the display name the settings give the type of a record
NameOfType(t) == IF t \in DOMAIN commit_types THEN commit_types[t] ELSE t

\* every record of surv stands in the groups ch as often as in surv, in a
\* group named after its type, and the groups hold nothing else
GroupedOnce(ch, all, surv) ==
    /\ Len(all) = Len(surv)
    /\ \A i \in 1..Len(surv) :
          /\ TimesIn(surv[i], all) = TimesIn(surv[i], surv)
          /\ \E g \in 1..Len(ch) :
                /\ ch[g].name = NameOfType(surv[i].commit_type)
                /\ surv[i] \in Range(ch[g].lines)

\* C25: for every mapping of types to display names and every log, each
\* record that survives the type filter appears exactly once in
\* section.changes, in the group named after its own type, so the group
\* sizes sum to the number of surviving records.
C25_GroupingKeepsAll ==
    Returned("get_changelog_section") =>
        GroupedOnce(result.section.changes, ChangesLines,
                    SelectSeq(SectionRecords, PassesTypeFilter))

(***************************************************************************)
(* Properties of the limits (checked under Spec)                           *)
(***************************************************************************)
\* C26: every query get_changelog makes to a log provider carries the
\* commit_limit the caller gave, whether the version sequence has one
\* version or several.
C26_LimitInEveryQuery ==
    call.op = "get_changelog" =>
        \A k \in 1..Len(queries) : queries[k].commit_limit = call.commit_limit

(***************************************************************************)
(* Further properties of get_next_version (checked under SpecVersion)      *)
(***************************************************************************)
\* the version v is greater than major a, minor b, patch c in
\* semantic-version order
GreaterThan(v, a, b, c) ==
    \/ v.major > a
    \/ v.major = a /\ v.minor > b
    \/ v.major = a /\ v.minor = b /\ v.patch > c

\* C27: whenever get_next_version returns a version, that version is
\* strictly greater than the current one in semantic-version order, its name
\* is the prefix followed by the new version written out in full, and its
\* semver field is that version.
C27_NextVersionGreater ==
    (next_version # Idle /\ next_version.status = "version") =>
        \A a, b, c \in 0..MaxPart :
            Spells(a, b, c) =>
                /\ GreaterThan(next_version.semver, a, b, c)
                /\ next_version.name = tag_prefix \o
                       <<ToString(next_version.semver.major), ".",
                         ToString(next_version.semver.minor), ".",
                         ToString(next_version.semver.patch)>>

\* a fix commit took the prefixed current version "1.1" to 1.1.1
C27_Witness ==
    /\ next_version # Idle /\ next_version.status = "version"
    /\ tag_prefix = <<"v">>
    /\ current_version = <<"v", "1", ".", "1">>
    /\ next_version.name = <<"v", "1", ".", "1", ".", "1">>
    /\ next_version.semver = [major |-> 1, minor |-> 1, patch |-> 1]

(***************************************************************************)
(* Properties of the bump command (checked under SpecBump)                 *)
(***************************************************************************)
\* the run wrote a file, made a commit or created a tag
TouchedAnything == \E k \in 1..Len(effects) : effects[k].op \in {"write", "commit", "create_tag"}

\* before position k the run had, in this order, a next version, the user's
\* yes to the generation, the changelog file written, the user's yes to the
\* commit, and the commit
PreparedBefore(k) ==
    \E i1, i2, i3, i4, i5 \in 1..(k - 1) :
        /\ i1 < i2 /\ i2 < i3 /\ i3 < i4 /\ i4 < i5
        /\ effects[i1].op = "next_version"
        /\ effects[i2] = Effect("confirm_generate", "yes")
        /\ effects[i3] = Effect("write", options_output)
        /\ effects[i4] = Effect("confirm_commit", "yes")
        /\ effects[i5] = Effect("commit", options_output)

\* the kinds of run that must leave everything as it is
MustNotTouch ==
    \/ args.dry_run
    \/ args.show_next_version
    \/ args.show_current_version
    \/ bump_next_version = NoVersion
    \/ Effect("confirm_generate", "no") \in Range(effects)

\* C28: a bump run creates the git tag only after, in this order, a next
\* version was determined, the user confirmed the generation, the changelog
\* file was written, the user confirmed the commit and the file was
\* committed; a run with --dry-run, --show-next-version or
\* --show-current-version, a run with no next version and a run in which the
\* generation is declined write no file, make no commit and create no tag.
C28_TagOnlyAfterCommit ==
    /\ \A k \in 1..Len(effects) : effects[k].op = "create_tag" => PreparedBefore(k)
    /\ MustNotTouch => ~TouchedAnything

\* a run went through to the tag of the next version
C28_Witness ==
    /\ bump_pc = "done"
    /\ Len(effects) = 7
    /\ effects[7] = Effect("create_tag", bump_next_version.name)
    /\ args.latest_version = <<>>

\* C29: the number of records a section holds in changes never exceeds the
\* commit_limit given to get_changelog_section, whatever the number of
\* configured log providers.
C29_ChangesWithinLimit ==
    (Returned("get_changelog_section") /\ call.commit_limit # NoLimit) =>
        Len(ChangesLines) <= call.commit_limit

(***************************************************************************)
(* Order of the groups of equal priority (checked under Spec)              *)
(***************************************************************************)
\* the groups ch of equal configured priority come in ascending order of
\* their raw type key
TiesAlphabetical(ch) ==
    \A g, h \in 1..Len(ch) :
        (g < h /\ ConfiguredPriority(ch[g].lines[1].commit_type)
                     = ConfiguredPriority(ch[h].lines[1].commit_type))
            => StrLess(<<ch[g].lines[1].commit_type>>, <<ch[h].lines[1].commit_type>>)

\* C30: in every section returned by get_changelog_section the groups of
\* section.changes whose types have the same priority (all the types missing
\* from the priority table among them) are in ascending alphabetical order
\* of their raw type key, whatever the order of the commits in the log.
C30_EqualPriorityAlphabetical ==
    Returned("get_changelog_section") => TiesAlphabetical(result.section.changes)

\* a section came back with the group of "build" in front of the group of
\* "revert", both unlisted, from a log that delivers the revert first
C30_Witness ==
    /\ Returned("get_changelog_section")
    /\ Len(SectionRecords) = 2
    /\ SectionRecords[1].commit_type = "revert" /\ SectionRecords[2].commit_type = "build"
    /\ Len(result.section.changes) = 2
    /\ GroupType(1) = "build" /\ GroupType(2) = "revert"

====
